---- MODULE Spec2Model ----
(***************************************************************************)
(* BrewHouse: a GTK front end that shells out to `brew`.                   *)
(*                                                                         *)
(* brew.rs holds the command functions (one subprocess per call, output    *)
(* decoded and mapped to BrewResult); main.rs holds three views that call  *)
(* them from futures on the GTK main context, each invocation handed to a  *)
(* blocking worker with gio::spawn_blocking and awaited.                   *)
(*                                                                         *)
(* The three views share no state (each create_*_view owns its stores and  *)
(* widgets), so each view is a specification of its own over its own       *)
(* variables; the variables of the other views stay at their initial       *)
(* values.  SpecCmd applies the command functions of brew.rs to bounded    *)
(* process outcomes.                                                       *)
(*                                                                         *)
(* Text (String) is a sequence of tokens: a token is one character, or a   *)
(* literal fragment of several non-whitespace-delimited characters written *)
(* as one token (Lit).                                                     *)
(*                                                                         *)
(* Of each view the widgets kept are the list, the status labels, the      *)
(* buttons and the name label of the details pane.  The spinners and the   *)
(* version, description and homepage labels are written next to these and  *)
(* never read by any handler; they are left out.  A panic of               *)
(* .expect("Background task failed") is not modelled.  The names one      *)
(* `brew` listing reports are taken to be distinct.                        *)
(***************************************************************************)
EXTENDS Integers, Sequences, FiniteSets, TLC

VARIABLES
    \* ---- SpecCmd: one call of a brew.rs command function
    cmd_pc, cmd_call, cmd_result,
    \* ---- updates view (create_updates_view)
    checkboxes, upd_list, upd_header, upgrade_status,
    upgrade_selected_btn, upgrade_all_btn,
    load_pc, load_job,
    bpc, selected, bi, succeeded, failed, bjobs, events,
    apc, ajob,
    \* ---- installed view (create_installed_view)
    packages_store, inst_list, inst_selected, inst_details_name, inst_status_label,
    uninstall_btn, uninstall_status,
    iload_pc, iload_job,
    upc, ujob, u_pkg_name, u_row,
    \* ---- browse view (create_browse_view)
    results_store, br_list, br_details_name, search_status, install_btn,
    searches, pending_query,
    br_selected, install_status, infos, ipc, ijob, i_pkg_name,
    \* ---- startup (main, show_update_dialog, build_main_window)
    main_pc, brew_installed, probe_proc, warned, invocations,
    dialog_open, dlg_status, dlg_text, continue_btn, dpc, djob,
    stats_pc, stats_job, stat_labels

cmdVars == <<cmd_pc, cmd_call, cmd_result>>
updVars == <<checkboxes, upd_list, upd_header, upgrade_status,
             upgrade_selected_btn, upgrade_all_btn, load_pc, load_job,
             bpc, selected, bi, succeeded, failed, bjobs, events, apc, ajob>>
instVars == <<packages_store, inst_list, inst_selected, inst_details_name,
              inst_status_label, uninstall_btn, uninstall_status, iload_pc, iload_job,
              upc, ujob, u_pkg_name, u_row>>
brOpVars == <<br_selected, install_status, infos, ipc, ijob, i_pkg_name>>
brVars == <<results_store, br_list, br_details_name, search_status, install_btn,
            searches, pending_query, brOpVars>>
startVars == <<main_pc, brew_installed, probe_proc, warned, invocations, dialog_open,
               dlg_status, dlg_text,
               continue_btn, dpc, djob, stats_pc, stats_job, stat_labels>>
vars == <<cmdVars, updVars, instVars, brVars, startVars>>
nonCmdVars == <<updVars, instVars, brVars, startVars>>
nonUpdVars == <<cmdVars, instVars, brVars, startVars>>
nonInstVars == <<cmdVars, updVars, brVars, startVars>>
nonBrVars == <<cmdVars, updVars, instVars, startVars>>
nonStartVars == <<cmdVars, updVars, instVars, brVars>>

(***************************************************************************)
(* Bounds                                                                  *)
(***************************************************************************)
\* number of distinct package identities the tool may report
NPkgs == 3
\* most lines `brew outdated` reports
MaxOutdated == 2
\* most formulae `brew info --installed` reports
MaxInstalled == 3
\* most searches in flight at once
MaxSearches == 2
\* most package-info requests of the browse view in flight at once
MaxInfos == 1

(***************************************************************************)
(* Text helpers (std::str)                                                 *)
(***************************************************************************)
Lit(s) == <<s>>

NL == "\n"

Min(S) == CHOOSE m \in S : \A n \in S : m <= n

\* char::is_whitespace, on the characters the model uses
IsWhitespace(c) == c \in {" ", "\t", "\r", "\n"}

RECURSIVE TrimStart(_)
TrimStart(s) ==
    IF s = <<>> THEN <<>>
    ELSE IF IsWhitespace(Head(s)) THEN TrimStart(Tail(s)) ELSE s

RECURSIVE TrimEnd(_)
TrimEnd(s) ==
    IF s = <<>> THEN <<>>
    ELSE IF IsWhitespace(s[Len(s)]) THEN TrimEnd(SubSeq(s, 1, Len(s) - 1)) ELSE s

\* str::trim
Trim(s) == TrimEnd(TrimStart(s))

\* str::starts_with
StartsWith(s, p) == Len(s) >= Len(p) /\ SubSeq(s, 1, Len(p)) = p

\* a line of str::lines loses the "\r" of a "\r\n" ending
StripCR(l) ==
    IF l # <<>> /\ l[Len(l)] = "\r" THEN SubSeq(l, 1, Len(l) - 1) ELSE l

\* str::lines: split at "\n"; a final "\n" opens no further line
RECURSIVE Lines(_)
Lines(t) ==
    IF t = <<>> THEN <<>>
    ELSE LET nl == {i \in 1..Len(t) : t[i] = NL}
         IN  IF nl = {} THEN <<StripCR(t)>>
             ELSE LET i == Min(nl)
                  IN  <<StripCR(SubSeq(t, 1, i - 1))>> \o Lines(SubSeq(t, i + 1, Len(t)))

\* Iterator::map over a sequence
MapSeq(s, F(_)) == [i \in 1..Len(s) |-> F(s[i])]

\* the text whose lines are ls, each ended by "\n"
RECURSIVE Unlines(_)
Unlines(ls) == IF ls = <<>> THEN <<>> ELSE Head(ls) \o <<NL>> \o Unlines(Tail(ls))

(***************************************************************************)
(* The outcome of Command::output(): the process could not be spawned      *)
(* (io::Error), or it ran and exited with a status and two captured        *)
(* streams.                                                                *)
(* stdout is text; json is the JSON document that text spells (NotJson when  *)
(* it spells none), so that serde_json::from_str is a decoding of json.     *)
(***************************************************************************)
NotJson == [t |-> "invalid"]
JNull == [t |-> "null"]
JBool(b) == [t |-> "bool", b |-> b]
JNum(n) == [t |-> "num", n |-> n]
JStr(s) == [t |-> "str", s |-> s]
JArr(a) == [t |-> "arr", a |-> a]
\* o is a function from the keys of the object to their values
JObj(o) == [t |-> "obj", o |-> o]

NoProc ==
    [kind |-> "none", ok |-> FALSE, stdout |-> <<>>, stderr |-> <<>>, msg |-> <<>>,
     json |-> NotJson]
SpawnErr(m) ==
    [kind |-> "spawn_err", ok |-> FALSE, stdout |-> <<>>, stderr |-> <<>>, msg |-> m,
     json |-> NotJson]
Exited(ok, out, err) ==
    [kind |-> "exited", ok |-> ok, stdout |-> out, stderr |-> err, msg |-> <<>>,
     json |-> NotJson]
\* a process that exited with success and printed the JSON document doc
ExitedJson(doc) ==
    [kind |-> "exited", ok |-> TRUE, stdout |-> <<"{json}">>, stderr |-> <<>>, msg |-> <<>>,
     json |-> doc]

\* io::Error::to_string() of a failed spawn
ENOENT == Lit("No such file or directory (os error 2)")

(***************************************************************************)
(* brew.rs: BrewError, BrewResult                                          *)
(***************************************************************************)
NoErr == [kind |-> "none", msg |-> <<>>]
CommandFailed(m) == [kind |-> "CommandFailed", msg |-> m]
ParseError(m) == [kind |-> "ParseError", msg |-> m]

Ok(v) == [ok |-> TRUE, val |-> v, err |-> NoErr]
Err(e) == [ok |-> FALSE, val |-> <<>>, err |-> e]

\* impl Display for BrewError
DisplayBrewError(e) ==
    CASE e.kind = "CommandFailed" -> Lit("Brew command failed: ") \o e.msg
      [] e.kind = "ParseError" -> Lit("Failed to parse brew output: ") \o e.msg
      [] OTHER -> Lit("Homebrew is not installed or not in PATH")

\* the shared shape of install_package, uninstall_package, upgrade_packages:
\* spawn error -> CommandFailed(io error); non-success exit ->
\* CommandFailed(stderr); otherwise Ok(stdout)
RunForOutput(p) ==
    IF p.kind = "spawn_err" THEN Err(CommandFailed(p.msg))
    ELSE IF ~p.ok THEN Err(CommandFailed(p.stderr))
    ELSE Ok(p.stdout)

install_package(package_name, p) == RunForOutput(p)

uninstall_package(package_name, p) == RunForOutput(p)

\* faulty variant of upgrade_packages: the failure carries the wrong stream
upgrade_packagesStdout(package_name, p) ==
    IF p.kind = "spawn_err" THEN Err(CommandFailed(p.msg))
    ELSE IF ~p.ok THEN Err(CommandFailed(p.stdout))
    ELSE Ok(p.stdout)

\* package_name is a name, or None for "upgrade all"
upgrade_packages(package_name, p) == RunForOutput(p)

\* the line-list decoding of search_packages: trimmed lines, the empty ones
\* and the "==>" section headers dropped
SearchLines(out) ==
    SelectSeq(MapSeq(Lines(out), Trim),
              LAMBDA s : s # <<>> /\ ~StartsWith(s, <<"=", "=", ">">>))

search_packages(query, p) ==
    IF p.kind = "spawn_err" THEN Err(CommandFailed(p.msg))
    ELSE IF ~p.ok THEN Err(CommandFailed(p.stderr))
    ELSE Ok(SearchLines(p.stdout))

\* the arguments search_packages gives to `brew`: the term only when the
\* query is not empty
SearchArgs(query) ==
    <<Lit("search"), Lit("--formula")>> \o (IF query # <<>> THEN <<query>> ELSE <<>>)

\* the line-list decoding of get_outdated_packages: trimmed non-empty lines
OutdatedLines(out) ==
    SelectSeq(MapSeq(Lines(out), Trim), LAMBDA s : s # <<>>)

get_outdated_packages(p) ==
    IF p.kind = "spawn_err" THEN Err(CommandFailed(p.msg))
    ELSE IF ~p.ok THEN Err(CommandFailed(p.stderr))
    ELSE Ok(OutdatedLines(p.stdout))

\* update_brew: the failure detail is "{stdout}\n{stderr}", success is the
\* pair (stdout, stderr)
update_brew(p) ==
    IF p.kind = "spawn_err" THEN Err(CommandFailed(p.msg))
    ELSE IF ~p.ok THEN Err(CommandFailed(p.stdout \o <<NL>> \o p.stderr))
    ELSE Ok(<<p.stdout, p.stderr>>)

(***************************************************************************)
(* serde: the derived Deserialize of the response structs.  A field of     *)
(* type Option<T> decodes a missing key and null to None and anything else *)
(* with T's decoder; a field of any other type must be present and decode. *)
(* Keys the struct does not name are ignored.                              *)
(***************************************************************************)
None == [some |-> FALSE, v |-> <<>>]
Some(x) == [some |-> TRUE, v |-> x]

DOk(v) == [ok |-> TRUE, val |-> v]
DErr == [ok |-> FALSE, val |-> <<>>]

DecString(v) == IF v.t = "str" THEN DOk(v.s) ELSE DErr

DecBool(v) == IF v.t = "bool" THEN DOk(v.b) ELSE DErr

\* a field of type Option<T>
DecOpt(o, k, Dec(_)) ==
    IF k \notin DOMAIN o THEN DOk(None)
    ELSE IF o[k].t = "null" THEN DOk(None)
    ELSE LET r == Dec(o[k]) IN IF r.ok THEN DOk(Some(r.val)) ELSE DErr

\* a field of a type that is no Option
DecReq(o, k, Dec(_)) == IF k \notin DOMAIN o THEN DErr ELSE Dec(o[k])

\* Vec<T>
DecVec(v, Dec(_)) ==
    IF v.t # "arr" THEN DErr
    ELSE LET rs == MapSeq(v.a, Dec)
         IN  IF \A i \in 1..Len(rs) : rs[i].ok
             THEN DOk([i \in 1..Len(rs) |-> rs[i].val])
             ELSE DErr

\* struct BrewVersions { stable: String, head: Option<String>, bottle: Option<bool> }
\* faulty variant of BrewVersions: head declared String, not Option<String>
DecBrewVersionsHeadRequired(v) ==
    IF v.t # "obj" THEN DErr
    ELSE LET stable == DecReq(v.o, "stable", DecString)
             head == DecReq(v.o, "head", DecString)
             bottle == DecOpt(v.o, "bottle", DecBool)
         IN  IF stable.ok /\ head.ok /\ bottle.ok
             THEN DOk([stable |-> stable.val, head |-> Some(head.val),
                       bottle |-> bottle.val])
             ELSE DErr

DecBrewVersions(v) ==
    IF v.t # "obj" THEN DErr
    ELSE LET stable == DecReq(v.o, "stable", DecString)
             head == DecOpt(v.o, "head", DecString)
             bottle == DecOpt(v.o, "bottle", DecBool)
         IN  IF stable.ok /\ head.ok /\ bottle.ok
             THEN DOk([stable |-> stable.val, head |-> head.val, bottle |-> bottle.val])
             ELSE DErr

\* struct BrewInfoFormula, the fields the views read: name and versions are
\* required, desc and homepage are Option<String>
DecBrewInfoFormula(v) ==
    IF v.t # "obj" THEN DErr
    ELSE LET name == DecReq(v.o, "name", DecString)
             desc == DecOpt(v.o, "desc", DecString)
             homepage == DecOpt(v.o, "homepage", DecString)
             versions == DecReq(v.o, "versions", DecBrewVersions)
         IN  IF name.ok /\ desc.ok /\ homepage.ok /\ versions.ok
             THEN DOk([name |-> name.val, desc |-> desc.val, homepage |-> homepage.val,
                       versions |-> versions.val])
             ELSE DErr

\* BrewInfoResponse with #[serde(default)] on formulae: a document without
\* the key decodes to no formulae
DecBrewInfoResponseDefault(doc) ==
    IF doc.t # "obj" THEN DErr
    ELSE IF "formulae" \notin DOMAIN doc.o THEN DOk(<<>>)
    ELSE DecVec(doc.o.formulae, DecBrewInfoFormula)

\* struct BrewInfoResponse { formulae: Vec<BrewInfoFormula> }
DecBrewInfoResponse(doc) ==
    IF doc.t # "obj" THEN DErr
    ELSE DecReq(doc.o, "formulae", LAMBDA v : DecVec(v, DecBrewInfoFormula))

\* serde_json::Error::to_string()
SerdeDiagnostic == Lit("serde_json error")

\* struct Package
Package(name, version, desc, homepage, installed) ==
    [name |-> name, version |-> version, desc |-> desc, homepage |-> homepage,
     installed |-> installed]

get_installed_packages(p) ==
    IF p.kind = "spawn_err" THEN Err(CommandFailed(p.msg))
    ELSE IF ~p.ok THEN Err(CommandFailed(p.stderr))
    ELSE LET response == DecBrewInfoResponse(p.json)
         IN  IF ~response.ok THEN Err(ParseError(SerdeDiagnostic))
             ELSE Ok(MapSeq(response.val,
                            LAMBDA info : Package(info.name, Some(info.versions.stable),
                                                  info.desc, info.homepage, TRUE)))

get_package_info(package_name, p) ==
    IF p.kind = "spawn_err" THEN Err(CommandFailed(p.msg))
    ELSE IF ~p.ok THEN Err(CommandFailed(p.stderr))
    ELSE LET response == DecBrewInfoResponse(p.json)
         IN  IF ~response.ok THEN Err(ParseError(SerdeDiagnostic))
             ELSE IF response.val = <<>>
                  THEN Err(ParseError(Lit("No formula found in response")))
                  ELSE Ok(Head(response.val))

(***************************************************************************)
(* Package identities                                                      *)
(***************************************************************************)
PkgLetters == <<"a", "b", "c", "d", "e", "f">>
Pkgs == {Lit(PkgLetters[i]) : i \in 1..NPkgs}
NoName == <<>>

\* the sequences of distinct identities of length at most n
DistinctSeqs(S, n) ==
    UNION {{s \in [1..k -> S] : \A i, j \in 1..k : i # j => s[i] # s[j]} : k \in 0..n}

(***************************************************************************)
(* SpecCmd: the command functions of brew.rs applied to process outcomes   *)
(***************************************************************************)
CmdStdouts ==
    { <<>>,
      <<"a", NL>>,
      Lit("Warning: already installed") \o <<NL>>,
      <<"=", "=", ">", " ", "F", NL, " ", "a", " ", NL, NL, "b", "\r", NL>> }

CmdStderrs == { <<>>, Lit("Error: No such keg") \o <<NL>> }

CmdProcs ==
    {SpawnErr(ENOENT)}
        \cup {Exited(ok, out, err) : ok \in BOOLEAN, out \in CmdStdouts, err \in CmdStderrs}

CmdQueries == {<<>>, <<"a">>}

\* what `brew info --json=v2` prints for the formula named n
FormulaJson(n) ==
    JObj([name |-> JStr(n), desc |-> JNull,
          versions |-> JObj([stable |-> JStr(Lit("1.0")), bottle |-> JBool(TRUE)])])

InfoJson(ns) == JObj([formulae |-> JArr(MapSeq(ns, FormulaJson)), casks |-> JArr(<<>>)])

\* the outcomes of `brew info --json=v2`: those of any command, and the
\* successful exits that printed a JSON document
\* the objects `brew info` may print for the formula named n: fields the
\* structs declare Option omitted, null or of another type; versions or its
\* stable omitted or null (a head-only formula); the name omitted
FormulaVariants(n) ==
    LET versions == JObj([stable |-> JStr(Lit("1.0"))])
    IN  { FormulaJson(n),
          JObj([name |-> JStr(n), versions |-> versions]),
          JObj([name |-> JStr(n), desc |-> JStr(Lit("d")), homepage |-> JStr(Lit("h")),
                versions |-> versions]),
          JObj([name |-> JStr(n)]),
          JObj([name |-> JStr(n),
                versions |-> JObj([stable |-> JNull, head |-> JStr(Lit("HEAD"))])]),
          JObj([name |-> JStr(n), desc |-> JNum(1), versions |-> versions]),
          JObj([name |-> JStr(n),
                versions |-> JObj([stable |-> JStr(Lit("1.0")),
                                   bottle |-> JStr(Lit("yes"))])]),
          JObj([desc |-> JStr(n), versions |-> versions]) }

\* the documents `brew info --json=v2` may print
InfoDocs ==
    LET formulas == UNION {FormulaVariants(n) : n \in Pkgs}
    IN  {JObj([formulae |-> JArr(<<>>), casks |-> JArr(<<>>)])}
            \cup {JObj([formulae |-> JArr(<<f>>), casks |-> JArr(<<>>)]) : f \in formulas}
            \cup {JObj([formulae |-> JArr(<<f, g>>)]) :
                      f \in FormulaVariants(Lit("a")), g \in FormulaVariants(Lit("b"))}
            \cup {JArr(<<>>), JObj([formulae |-> JNull]),
                  JObj([casks |-> JArr(<<>>)]), JStr(Lit("formulae"))}

CmdInfoProcs ==
    CmdProcs \cup {ExitedJson(InfoJson(ns)) : ns \in DistinctSeqs(Pkgs, 2)}
             \cup {ExitedJson(doc) : doc \in InfoDocs}

NoCall == [fn |-> "none", arg |-> NoName, proc |-> NoProc]
NoResult == [ok |-> FALSE, val |-> <<>>, err |-> NoErr]

CmdInit ==
    /\ cmd_pc = "ready"
    /\ cmd_call = NoCall
    /\ cmd_result = NoResult

\* the caller's future: gio::spawn_blocking(brew::f(arg)).await
Returned(fn, arg, p, r) ==
    /\ cmd_pc' = "returned"
    /\ cmd_call' = [fn |-> fn, arg |-> arg, proc |-> p]
    /\ cmd_result' = r

CallInstall ==
    /\ cmd_pc = "ready"
    /\ \E n \in Pkgs, p \in CmdProcs : Returned("install", n, p, install_package(n, p))
    /\ UNCHANGED nonCmdVars

CallUninstall ==
    /\ cmd_pc = "ready"
    /\ \E n \in Pkgs, p \in CmdProcs : Returned("uninstall", n, p, uninstall_package(n, p))
    /\ UNCHANGED nonCmdVars

CallUpgrade ==
    /\ cmd_pc = "ready"
    /\ \E n \in Pkgs \cup {NoName}, p \in CmdProcs :
          Returned("upgrade", n, p, upgrade_packages(n, p))
    /\ UNCHANGED nonCmdVars

CallSearch ==
    /\ cmd_pc = "ready"
    /\ \E q \in CmdQueries, p \in CmdProcs : Returned("search", q, p, search_packages(q, p))
    /\ UNCHANGED nonCmdVars

CallInfo ==
    /\ cmd_pc = "ready"
    /\ \E n \in Pkgs, p \in CmdInfoProcs : Returned("info", n, p, get_package_info(n, p))
    /\ UNCHANGED nonCmdVars

CallInstalled ==
    /\ cmd_pc = "ready"
    /\ \E p \in CmdInfoProcs : Returned("installed", NoName, p, get_installed_packages(p))
    /\ UNCHANGED nonCmdVars

CallOutdated ==
    /\ cmd_pc = "ready"
    /\ \E p \in CmdProcs : Returned("outdated", NoName, p, get_outdated_packages(p))
    /\ UNCHANGED nonCmdVars

CallUpdate ==
    /\ cmd_pc = "ready"
    /\ \E p \in CmdProcs : Returned("update", NoName, p, update_brew(p))
    /\ UNCHANGED nonCmdVars

\* the result is consumed by the caller's match
CmdConsume ==
    /\ cmd_pc = "returned"
    /\ cmd_pc' = "ready"
    /\ cmd_call' = NoCall
    /\ cmd_result' = NoResult
    /\ UNCHANGED nonCmdVars

(***************************************************************************)
(* Updates view (create_updates_view)                                      *)
(*                                                                         *)
(* checkboxes is the Rc<RefCell<Vec<(String, CheckButton)>>> store,        *)
(* upd_list the rows of the ListBox (each row shows one name and holds the *)
(* CheckButton of the store entry of the same position).                   *)
(* A blocking job is none -> queued (handed to gio::spawn_blocking) ->     *)
(* running (the worker called Command::output) -> done (output returned).  *)
(* events is the history of one batch: the progress notifications the      *)
(* future wrote to the status label and the starts and ends of its         *)
(* invocations, in the order they happened.                                *)
(***************************************************************************)
Label(kind, pkg, n, m, names, text) ==
    [kind |-> kind, pkg |-> pkg, n |-> n, m |-> m, names |-> names, text |-> text]

NoLabel == Label("", NoName, 0, 0, <<>>, <<>>)
\* format!("Upgrading {} ({}/{})...", pkg, i + 1, total), i the enumerate() index
UpgradingLabel(pkg, i, total) == Label("Upgrading", pkg, i + 1, total, <<>>, <<>>)
ErrorLabel(e) == Label("Error", NoName, 0, 0, <<>>, DisplayBrewError(e))
AvailableLabel(n) == Label("updates available", NoName, n, 0, <<>>, <<>>)
UpToDateLabel == Label("All packages are up to date!", NoName, 0, 0, <<>>, <<>>)

Button(v, s) == [visible |-> v, sensitive |-> s]
Clickable(b) == b.visible /\ b.sensitive

NoJob == [st |-> "none", proc |-> NoProc]
Queued == [st |-> "queued", proc |-> NoProc]

Event(ev, pkg, pos, total) == [ev |-> ev, pkg |-> pkg, pos |-> pos, total |-> total]

\* what `brew outdated --formula` may answer: any list of distinct formulae,
\* a failure exit, or no process at all
OutdatedProcs ==
    {Exited(TRUE, Unlines(s), <<>>) : s \in DistinctSeqs(Pkgs, MaxOutdated)}
        \cup {Exited(FALSE, <<>>, Lit("Error: outdated") \o <<NL>>), SpawnErr(ENOENT)}

\* what `brew upgrade [name]` may answer
UpgradeProcs ==
    { Exited(TRUE, Lit("Upgraded") \o <<NL>>, <<>>),
      Exited(FALSE, Lit("Pouring") \o <<NL>>, Lit("Error: upgrade") \o <<NL>>),
      SpawnErr(ENOENT) }

UpdInit ==
    /\ checkboxes = <<>>
    /\ upd_list = <<>>
    /\ upd_header = Label("Checking for updates...", NoName, 0, 0, <<>>, <<>>)
    /\ upgrade_status = NoLabel
    /\ upgrade_selected_btn = Button(FALSE, TRUE)
    /\ upgrade_all_btn = Button(FALSE, TRUE)
    /\ load_pc = "spawned"
    /\ load_job = NoJob
    /\ bpc = "idle"
    /\ selected = <<>>
    /\ bi = 0
    /\ succeeded = <<>>
    /\ failed = <<>>
    /\ bjobs = <<>>
    /\ events = <<>>
    /\ apc = "idle"
    /\ ajob = NoJob

Names(cbs) == [i \in 1..Len(cbs) |-> cbs[i].name]

\* create_update_row_with_checkbox: a fresh, inactive CheckButton
NewCheckbox(name) == [name |-> name, active |-> FALSE]

batchVars == <<bpc, selected, bi, succeeded, failed, bjobs, events>>
allVars == <<apc, ajob>>
loadVars == <<load_pc, load_job>>
widgetVars == <<checkboxes, upd_list, upd_header, upgrade_status,
                upgrade_selected_btn, upgrade_all_btn>>

(* ---- loading the outdated list (main.rs 829-861) ---- *)
LoadFirstPoll ==
    /\ load_pc = "spawned"
    /\ load_pc' = "await"
    /\ load_job' = Queued
    /\ UNCHANGED <<widgetVars, batchVars, allVars, nonUpdVars>>

LoadWorkerInvoke ==
    /\ load_job.st = "queued"
    /\ load_job' = [load_job EXCEPT !.st = "running"]
    /\ UNCHANGED <<load_pc, widgetVars, batchVars, allVars, nonUpdVars>>

LoadWorkerComplete ==
    /\ load_job.st = "running"
    /\ \E p \in OutdatedProcs : load_job' = [st |-> "done", proc |-> p]
    /\ UNCHANGED <<load_pc, widgetVars, batchVars, allVars, nonUpdVars>>

LoadResume ==
    /\ load_pc = "await"
    /\ load_job.st = "done"
    /\ load_pc' = "done"
    /\ LET result == get_outdated_packages(load_job.proc)
       IN  IF result.ok
           THEN IF result.val = <<>>
                THEN /\ upd_header' = UpToDateLabel
                     /\ UNCHANGED <<checkboxes, upd_list, upgrade_selected_btn,
                                    upgrade_all_btn>>
                ELSE /\ upd_header' = AvailableLabel(Len(result.val))
                     /\ upgrade_all_btn' = [upgrade_all_btn EXCEPT !.visible = TRUE]
                     /\ upgrade_selected_btn' =
                            [upgrade_selected_btn EXCEPT !.visible = TRUE]
                     /\ checkboxes' = checkboxes \o MapSeq(result.val, NewCheckbox)
                     /\ upd_list' = upd_list \o result.val
           ELSE /\ upd_header' = ErrorLabel(result.err)
                /\ UNCHANGED <<checkboxes, upd_list, upgrade_selected_btn,
                               upgrade_all_btn>>
    /\ UNCHANGED <<load_job, upgrade_status, batchVars, allVars, nonUpdVars>>

(* ---- the user toggles the CheckButton of a displayed row ---- *)
ToggleCheckbox ==
    /\ \E i \in 1..Len(upd_list) :
          /\ i <= Len(checkboxes)
          /\ checkboxes[i].name = upd_list[i]
          /\ checkboxes' = [checkboxes EXCEPT ![i].active = ~checkboxes[i].active]
    /\ UNCHANGED <<upd_list, upd_header, upgrade_status, upgrade_selected_btn,
                   upgrade_all_btn, loadVars, batchVars, allVars, nonUpdVars>>

(* ---- Upgrade Selected (main.rs 871-977) ---- *)

\* faulty variant of SelectedNames: the filter on is_active() is lost
SelectedNamesAll(cbs) == Names(cbs)

\* the names whose CheckButton is active, in store order
SelectedNames(cbs) ==
    Names(SelectSeq(cbs, LAMBDA cb : cb.active))

\* `for (i, pkg) in selected.iter().enumerate()`: there is an item of index i
\* (counted from 0)
HasNext(i, total) == i < total

\* faulty variant of DispatchSet: every item is handed to a worker at once
\* and the results are awaited afterwards
DispatchAllAtOnce(i, total) == IF i = 0 THEN 1..total ELSE {}

\* the items (counted from 1) handed to a blocking worker by the iteration
\* of index i, which then awaits the result
DispatchSet(i, total) == {i + 1}

\* faulty variant of ProgressNote: the position is the 0-based index
ProgressNoteZeroBased(pkg, i, total) == Event("notify", pkg, i, total)

\* the progress text written before the invocation of the item of index i
ProgressNote(pkg, i, total) == Event("notify", pkg, i + 1, total)

\* faulty variant of RecordOutcome: a failure is not recorded
RecordOutcomeDropsFailure(succ, fail, pkg, result) ==
    IF result.ok
    THEN [succeeded |-> Append(succ, pkg), failed |-> fail]
    ELSE [succeeded |-> succ, failed |-> fail]

\* match result { Ok(_) => succeeded.push(pkg), Err(e) => failed.push((pkg, e.to_string())) }
RecordOutcome(succ, fail, pkg, result) ==
    IF result.ok
    THEN [succeeded |-> Append(succ, pkg), failed |-> fail]
    ELSE [succeeded |-> succ,
          failed |-> Append(fail, <<pkg, DisplayBrewError(result.err)>>)]

Contains(seq, x) == \E i \in 1..Len(seq) : seq[i] = x

\* faulty variant of Remaining: every attempted name is dropped, the failed
\* ones too
RemainingNotAttempted(cbs, succ) ==
    Names(SelectSeq(cbs, LAMBDA cb : ~Contains(selected, cb.name)))

\* the names of the store that are not in succeeded, in store order
Remaining(cbs, succ) ==
    Names(SelectSeq(cbs, LAMBDA cb : ~Contains(succ, cb.name)))

FailedNames(fail) == [i \in 1..Len(fail) |-> fail[i][1]]

UpgradeSelectedClicked ==
    /\ Clickable(upgrade_selected_btn)
    /\ LET sel == SelectedNames(checkboxes)
       IN  IF sel = <<>>
           THEN /\ upgrade_status' = Label("No packages selected", NoName, 0, 0, <<>>, <<>>)
                /\ UNCHANGED <<upgrade_selected_btn, batchVars>>
           ELSE /\ upgrade_selected_btn' = [upgrade_selected_btn EXCEPT !.sensitive = FALSE]
                /\ selected' = sel
                /\ bpc' = "spawned"
                /\ bi' = 0
                /\ succeeded' = <<>>
                /\ failed' = <<>>
                /\ bjobs' = [k \in 1..Len(sel) |-> NoJob]
                /\ events' = <<>>
                /\ UNCHANGED upgrade_status
    /\ UNCHANGED <<checkboxes, upd_list, upd_header, upgrade_all_btn,
                   loadVars, allVars, nonUpdVars>>

\* the code after the loop: clear the list, compute remaining, show the
\* result, rebuild the store and the rows, re-enable the button
BatchFinish(succ, fail) ==
    LET remaining == Remaining(checkboxes, succ)
    IN  /\ upd_list' = remaining
        /\ checkboxes' = MapSeq(remaining, NewCheckbox)
        /\ upgrade_status' =
              IF fail = <<>>
              THEN Label("packages upgraded successfully!", NoName, Len(succ), 0, <<>>, <<>>)
              ELSE Label("upgraded, failed", NoName, Len(succ), Len(fail),
                         FailedNames(fail), <<>>)
        /\ IF remaining = <<>>
           THEN /\ upd_header' = UpToDateLabel
                /\ upgrade_all_btn' = [upgrade_all_btn EXCEPT !.visible = FALSE]
                /\ upgrade_selected_btn' = Button(FALSE, TRUE)
           ELSE /\ upd_header' = AvailableLabel(Len(remaining))
                /\ upgrade_all_btn' = upgrade_all_btn
                /\ upgrade_selected_btn' =
                      [upgrade_selected_btn EXCEPT !.sensitive = TRUE]
        /\ succeeded' = succ
        /\ failed' = fail
        /\ bpc' = "done"
        /\ UNCHANGED <<selected, bi, bjobs, events>>

\* faulty variant of BatchLoop: the loop is left at the first failure
BatchLoopStopsAtFailure(succ, fail, i) ==
    LET total == Len(selected)
    IN  IF fail = <<>> /\ HasNext(i, total)
        THEN /\ upgrade_status' = UpgradingLabel(selected[i + 1], i, total)
             /\ events' = Append(events, ProgressNote(selected[i + 1], i, total))
             /\ bjobs' = [k \in 1..Len(bjobs) |->
                            IF k \in DispatchSet(i, total) THEN Queued ELSE bjobs[k]]
             /\ bi' = i + 1
             /\ bpc' = "await"
             /\ succeeded' = succ
             /\ failed' = fail
             /\ UNCHANGED <<selected, checkboxes, upd_list, upd_header,
                            upgrade_selected_btn, upgrade_all_btn>>
        ELSE BatchFinish(succ, fail)

\* one poll of the future from the head of the loop, i items iterated so far
BatchLoop(succ, fail, i) ==
    LET total == Len(selected)
    IN  IF HasNext(i, total)
        THEN /\ upgrade_status' = UpgradingLabel(selected[i + 1], i, total)
             /\ events' = Append(events, ProgressNote(selected[i + 1], i, total))
             /\ bjobs' = [k \in 1..Len(bjobs) |->
                            IF k \in DispatchSet(i, total) THEN Queued ELSE bjobs[k]]
             /\ bi' = i + 1
             /\ bpc' = "await"
             /\ succeeded' = succ
             /\ failed' = fail
             /\ UNCHANGED <<selected, checkboxes, upd_list, upd_header,
                            upgrade_selected_btn, upgrade_all_btn>>
        ELSE BatchFinish(succ, fail)

BatchFirstPoll ==
    /\ bpc = "spawned"
    /\ BatchLoop(<<>>, <<>>, 0)
    /\ UNCHANGED <<loadVars, allVars, nonUpdVars>>

BatchWorkerInvoke ==
    /\ \E k \in 1..Len(bjobs) :
          /\ bjobs[k].st = "queued"
          /\ bjobs' = [bjobs EXCEPT ![k].st = "running"]
          /\ events' = Append(events, Event("invoke", selected[k], k, Len(selected)))
    /\ UNCHANGED <<bpc, selected, bi, succeeded, failed, widgetVars, loadVars,
                   allVars, nonUpdVars>>

BatchWorkerComplete ==
    /\ \E k \in 1..Len(bjobs), p \in UpgradeProcs :
          /\ bjobs[k].st = "running"
          /\ bjobs' = [bjobs EXCEPT ![k] = [st |-> "done", proc |-> p]]
          /\ events' = Append(events, Event("done", selected[k], k, Len(selected)))
    /\ UNCHANGED <<bpc, selected, bi, succeeded, failed, widgetVars, loadVars,
                   allVars, nonUpdVars>>

\* the awaited result is delivered: record it, then go round the loop
BatchResume ==
    /\ bpc = "await"
    /\ bjobs[bi].st = "done"
    /\ LET pkg == selected[bi]
           result == upgrade_packages(pkg, bjobs[bi].proc)
           rec == RecordOutcome(succeeded, failed, pkg, result)
       IN  BatchLoop(rec.succeeded, rec.failed, bi)
    /\ UNCHANGED <<loadVars, allVars, nonUpdVars>>

(* ---- Upgrade All (main.rs 985-1019) ---- *)
UpgradeAllClicked ==
    /\ Clickable(upgrade_all_btn)
    /\ upgrade_all_btn' = [upgrade_all_btn EXCEPT !.sensitive = FALSE]
    /\ upgrade_status' = Label("Upgrading all packages...", NoName, 0, 0, <<>>, <<>>)
    /\ apc' = "spawned"
    /\ UNCHANGED <<ajob, checkboxes, upd_list, upd_header, upgrade_selected_btn,
                   loadVars, batchVars, nonUpdVars>>

AllFirstPoll ==
    /\ apc = "spawned"
    /\ apc' = "await"
    /\ ajob' = Queued
    /\ UNCHANGED <<widgetVars, loadVars, batchVars, nonUpdVars>>

AllWorkerInvoke ==
    /\ ajob.st = "queued"
    /\ ajob' = [ajob EXCEPT !.st = "running"]
    /\ UNCHANGED <<apc, widgetVars, loadVars, batchVars, nonUpdVars>>

AllWorkerComplete ==
    /\ ajob.st = "running"
    /\ \E p \in UpgradeProcs : ajob' = [st |-> "done", proc |-> p]
    /\ UNCHANGED <<apc, widgetVars, loadVars, batchVars, nonUpdVars>>

AllResume ==
    /\ apc = "await"
    /\ ajob.st = "done"
    /\ apc' = "idle"
    /\ ajob' = NoJob
    /\ LET result == upgrade_packages(NoName, ajob.proc)
       IN  IF result.ok
           THEN /\ upgrade_status' =
                      Label("All packages upgraded successfully!", NoName, 0, 0, <<>>, <<>>)
                /\ upd_list' = <<>>
                /\ upd_header' = UpToDateLabel
                /\ upgrade_all_btn' = [upgrade_all_btn EXCEPT !.visible = FALSE]
                /\ upgrade_selected_btn' = [upgrade_selected_btn EXCEPT !.visible = FALSE]
           ELSE /\ upgrade_status' = ErrorLabel(result.err)
                /\ upgrade_all_btn' = [upgrade_all_btn EXCEPT !.sensitive = TRUE]
                /\ UNCHANGED <<upd_list, upd_header, upgrade_selected_btn>>
    /\ UNCHANGED <<checkboxes, loadVars, batchVars, nonUpdVars>>

(***************************************************************************)
(* Installed view (create_installed_view)                                  *)
(*                                                                         *)
(* packages_store is the Rc<RefCell<Vec<Package>>> store, inst_list the    *)
(* rows of the ListBox, each named by the package it shows; inst_selected  *)
(* is the selected row (NoName: none).  Positions count from 1, so the     *)
(* position of a row is its ListBoxRow::index() plus one.                  *)
(***************************************************************************)
InstalledProcs ==
    {ExitedJson(InfoJson(ns)) : ns \in DistinctSeqs(Pkgs, MaxInstalled)}
        \cup {ExitedJson(JObj([casks |-> JArr(<<>>)])),
              Exited(FALSE, <<>>, Lit("Error: info") \o <<NL>>),
              SpawnErr(ENOENT)}

\* what `brew uninstall name` may answer
UninstallProcs ==
    { Exited(TRUE, Lit("Uninstalling") \o <<NL>>, <<>>),
      Exited(FALSE, <<>>, Lit("Error: Refusing to uninstall") \o <<NL>>),
      SpawnErr(ENOENT) }

InstInit ==
    /\ packages_store = <<>>
    /\ inst_list = <<>>
    /\ inst_selected = NoName
    /\ inst_details_name = Lit("Select a package")
    /\ inst_status_label = Label("Loading...", NoName, 0, 0, <<>>, <<>>)
    /\ uninstall_btn = Button(FALSE, TRUE)
    /\ uninstall_status = NoLabel
    /\ iload_pc = "spawned"
    /\ iload_job = NoJob
    /\ upc = "idle"
    /\ ujob = NoJob
    /\ u_pkg_name = NoName
    /\ u_row = NoName

\* packages.get(idx), for the position idx + 1
InstalledResolve(store, pos) ==
    IF pos \in 1..Len(store) THEN Some(store[pos]) ELSE None

\* ListBoxRow::index() plus one
RowPosition(list, row) == CHOOSE i \in 1..Len(list) : list[i] = row

\* ListBox::remove(&row)
RemoveRow(list, row) == SelectSeq(list, LAMBDA r : r # row)

instLoadVars == <<iload_pc, iload_job>>
uninstVars == <<upc, ujob, u_pkg_name, u_row>>

(* ---- loading the installed packages (main.rs 475-501) ---- *)
InstLoadFirstPoll ==
    /\ iload_pc = "spawned"
    /\ iload_pc' = "await"
    /\ iload_job' = Queued
    /\ UNCHANGED <<packages_store, inst_list, inst_selected, inst_details_name,
                   inst_status_label, uninstall_btn, uninstall_status, uninstVars,
                   nonInstVars>>

InstLoadWorkerInvoke ==
    /\ iload_job.st = "queued"
    /\ iload_job' = [iload_job EXCEPT !.st = "running"]
    /\ UNCHANGED <<iload_pc, packages_store, inst_list, inst_selected, inst_details_name,
                   inst_status_label, uninstall_btn, uninstall_status, uninstVars,
                   nonInstVars>>

InstLoadWorkerComplete ==
    /\ iload_job.st = "running"
    /\ \E p \in InstalledProcs : iload_job' = [st |-> "done", proc |-> p]
    /\ UNCHANGED <<iload_pc, packages_store, inst_list, inst_selected, inst_details_name,
                   inst_status_label, uninstall_btn, uninstall_status, uninstVars,
                   nonInstVars>>

InstLoadResume ==
    /\ iload_pc = "await"
    /\ iload_job.st = "done"
    /\ iload_pc' = "done"
    /\ LET result == get_installed_packages(iload_job.proc)
       IN  IF result.ok
           THEN /\ inst_status_label' = Label("packages", NoName, Len(result.val), 0, <<>>, <<>>)
                /\ inst_list' = inst_list \o MapSeq(result.val, LAMBDA pkg : pkg.name)
                /\ packages_store' = result.val
           ELSE /\ inst_status_label' = ErrorLabel(result.err)
                /\ UNCHANGED <<inst_list, packages_store>>
    /\ UNCHANGED <<iload_job, inst_selected, inst_details_name, uninstall_btn,
                   uninstall_status, uninstVars, nonInstVars>>

(* ---- the user selects a row: row_selected (main.rs 401-418) ---- *)
InstSelectRow ==
    /\ \E pos \in 1..Len(inst_list) :
          /\ inst_list[pos] # inst_selected
          /\ inst_selected' = inst_list[pos]
          /\ LET pkg == InstalledResolve(packages_store, pos)
             IN  IF pkg.some
                 THEN /\ inst_details_name' = pkg.v.name
                      /\ uninstall_btn' = [uninstall_btn EXCEPT !.visible = TRUE]
                 ELSE UNCHANGED <<inst_details_name, uninstall_btn>>
    /\ UNCHANGED <<packages_store, inst_list, inst_status_label, uninstall_status,
                   instLoadVars, uninstVars, nonInstVars>>

(* ---- Uninstall (main.rs 427-467) ---- *)
UninstallClicked ==
    /\ Clickable(uninstall_btn)
    /\ inst_selected # NoName
    /\ LET pkg == InstalledResolve(packages_store, RowPosition(inst_list, inst_selected))
       IN  /\ pkg.some
           /\ u_pkg_name' = pkg.v.name
    /\ u_row' = inst_selected
    /\ uninstall_btn' = [uninstall_btn EXCEPT !.sensitive = FALSE]
    /\ uninstall_status' = Label("Uninstalling...", NoName, 0, 0, <<>>, <<>>)
    /\ upc' = "spawned"
    /\ UNCHANGED <<ujob, packages_store, inst_list, inst_selected, inst_details_name,
                   inst_status_label, instLoadVars, nonInstVars>>

UninstFirstPoll ==
    /\ upc = "spawned"
    /\ upc' = "await"
    /\ ujob' = Queued
    /\ UNCHANGED <<u_pkg_name, u_row, packages_store, inst_list, inst_selected,
                   inst_details_name, inst_status_label, uninstall_btn, uninstall_status,
                   instLoadVars, nonInstVars>>

UninstWorkerInvoke ==
    /\ ujob.st = "queued"
    /\ ujob' = [ujob EXCEPT !.st = "running"]
    /\ UNCHANGED <<upc, u_pkg_name, u_row, packages_store, inst_list, inst_selected,
                   inst_details_name, inst_status_label, uninstall_btn, uninstall_status,
                   instLoadVars, nonInstVars>>

UninstWorkerComplete ==
    /\ ujob.st = "running"
    /\ \E p \in UninstallProcs : ujob' = [st |-> "done", proc |-> p]
    /\ UNCHANGED <<upc, u_pkg_name, u_row, packages_store, inst_list, inst_selected,
                   inst_details_name, inst_status_label, uninstall_btn, uninstall_status,
                   instLoadVars, nonInstVars>>

\* faulty variant of UninstResume: the row is removed on failure too
UninstResumeRemovesAlways ==
    /\ upc = "await"
    /\ ujob.st = "done"
    /\ upc' = "idle"
    /\ ujob' = NoJob
    /\ LET result == uninstall_package(u_pkg_name, ujob.proc)
       IN  IF result.ok
           THEN /\ uninstall_status' =
                      Label("Uninstalled successfully!", NoName, 0, 0, <<>>, <<>>)
                /\ inst_list' = RemoveRow(inst_list, u_row)
                /\ inst_selected' = IF inst_selected = u_row THEN NoName ELSE inst_selected
                /\ inst_details_name' = Lit("Package uninstalled")
                /\ uninstall_btn' = [uninstall_btn EXCEPT !.visible = FALSE]
           ELSE /\ uninstall_status' = ErrorLabel(result.err)
                /\ uninstall_btn' = [uninstall_btn EXCEPT !.sensitive = TRUE]
                /\ inst_list' = RemoveRow(inst_list, u_row)
                /\ inst_selected' = IF inst_selected = u_row THEN NoName ELSE inst_selected
                /\ UNCHANGED inst_details_name
    /\ UNCHANGED <<u_pkg_name, u_row, packages_store, inst_status_label, instLoadVars,
                   nonInstVars>>

UninstResume ==
    /\ upc = "await"
    /\ ujob.st = "done"
    /\ upc' = "idle"
    /\ ujob' = NoJob
    /\ LET result == uninstall_package(u_pkg_name, ujob.proc)
       IN  IF result.ok
           THEN /\ uninstall_status' =
                      Label("Uninstalled successfully!", NoName, 0, 0, <<>>, <<>>)
                /\ inst_list' = RemoveRow(inst_list, u_row)
                /\ inst_selected' = IF inst_selected = u_row THEN NoName ELSE inst_selected
                /\ inst_details_name' = Lit("Package uninstalled")
                /\ uninstall_btn' = [uninstall_btn EXCEPT !.visible = FALSE]
           ELSE /\ uninstall_status' = ErrorLabel(result.err)
                /\ uninstall_btn' = [uninstall_btn EXCEPT !.sensitive = TRUE]
                /\ UNCHANGED <<inst_list, inst_selected, inst_details_name>>
    /\ UNCHANGED <<u_pkg_name, u_row, packages_store, inst_status_label, instLoadVars,
                   nonInstVars>>

(***************************************************************************)
(* Browse view (create_browse_view)                                        *)
(*                                                                         *)
(* results_store is the Rc<RefCell<Vec<String>>> store, br_list the rows   *)
(* of the ListBox, each the name it shows.  searches holds the search      *)
(* futures in flight, in the order they were spawned.  pending_query is a  *)
(* history variable: the text the entry held at its last activate signal,  *)
(* until a search for that text has been answered.  br_selected is the     *)
(* position of the selected row (0: none), infos the get_package_info      *)
(* futures in flight, and ipc, ijob, i_pkg_name the install future.        *)
(***************************************************************************)
BrQueries == {<<>>, <<"a">>, <<"b">>}

\* what `brew search --formula term` may answer
SearchProcs ==
    { Exited(TRUE, <<>>, <<>>),
      Exited(TRUE, <<"a", NL>>, <<>>),
      Exited(TRUE, <<"b", NL, "a", NL>>, <<>>),
      Exited(TRUE, <<"=", "=", ">", " ">> \o Lit("Formulae") \o <<NL, "c", NL>>, <<>>),
      Exited(FALSE, <<>>, Lit("Error: No formulae found") \o <<NL>>),
      SpawnErr(ENOENT) }

BrInit ==
    /\ results_store = <<>>
    /\ br_list = <<>>
    /\ br_details_name = Lit("Select a package")
    /\ search_status = Label("Enter a search term", NoName, 0, 0, <<>>, <<>>)
    /\ install_btn = Button(FALSE, TRUE)
    /\ searches = <<>>
    /\ pending_query = None
    /\ br_selected = 0
    /\ install_status = NoLabel
    /\ infos = <<>>
    /\ ipc = "idle"
    /\ ijob = NoJob
    /\ i_pkg_name = NoName

\* results.get(idx), for the position idx + 1
BrowseResolve(store, pos) ==
    IF pos \in 1..Len(store) THEN Some(store[pos]) ELSE None

RemoveAt(seq, k) == SubSeq(seq, 1, k - 1) \o SubSeq(seq, k + 1, Len(seq))

(* ---- activate of the search entry (main.rs 603-660) ---- *)
SearchActivate ==
    /\ Len(searches) < MaxSearches
    /\ \E query \in BrQueries :
          /\ pending_query' = Some(query)
          /\ IF query = <<>>
             THEN UNCHANGED <<results_store, br_list, br_details_name, search_status,
                              install_btn, searches, brOpVars>>
             ELSE /\ br_list' = <<>>
                  /\ br_selected' = 0
                  /\ br_details_name' = Lit("Searching...")
                  /\ install_btn' = [install_btn EXCEPT !.visible = FALSE]
                  /\ search_status' = Label("Searching...", NoName, 0, 0, <<>>, <<>>)
                  /\ searches' = Append(searches, [pc |-> "spawned", query |-> query,
                                                     job |-> NoJob])
                  /\ UNCHANGED <<results_store, install_status, infos, ipc, ijob,
                                 i_pkg_name>>
    /\ UNCHANGED nonBrVars

SearchFirstPoll ==
    /\ \E k \in 1..Len(searches) :
          /\ searches[k].pc = "spawned"
          /\ searches' = [searches EXCEPT ![k].pc = "await", ![k].job = Queued]
    /\ UNCHANGED <<results_store, br_list, br_details_name, search_status, install_btn,
                   pending_query, brOpVars, nonBrVars>>

SearchWorkerInvoke ==
    /\ \E k \in 1..Len(searches) :
          /\ searches[k].job.st = "queued"
          /\ searches' = [searches EXCEPT ![k].job.st = "running"]
    /\ UNCHANGED <<results_store, br_list, br_details_name, search_status, install_btn,
                   pending_query, brOpVars, nonBrVars>>

SearchWorkerComplete ==
    /\ \E k \in 1..Len(searches), p \in SearchProcs :
          /\ searches[k].job.st = "running"
          /\ searches' = [searches EXCEPT ![k].job = [st |-> "done", proc |-> p]]
    /\ UNCHANGED <<results_store, br_list, br_details_name, search_status, install_btn,
                   pending_query, brOpVars, nonBrVars>>

SearchResume ==
    /\ \E k \in 1..Len(searches) :
          /\ searches[k].pc = "await"
          /\ searches[k].job.st = "done"
          /\ searches' = RemoveAt(searches, k)
          /\ pending_query' = IF pending_query = Some(searches[k].query)
                              THEN None ELSE pending_query
          /\ LET result == search_packages(searches[k].query, searches[k].job.proc)
             IN  IF result.ok
                 THEN /\ search_status' =
                            Label("results", NoName, Len(result.val), 0, <<>>, <<>>)
                      /\ br_details_name' = Lit("Select a package")
                      /\ br_list' = br_list \o result.val
                      /\ results_store' = result.val
                 ELSE /\ search_status' = ErrorLabel(result.err)
                      /\ UNCHANGED <<br_details_name, br_list, results_store>>
    /\ UNCHANGED <<install_btn, brOpVars, nonBrVars>>

\* what `brew info --json=v2 name` may answer
BrInfoProcs(name) ==
    { ExitedJson(InfoJson(<<name>>)),
      ExitedJson(InfoJson(<<>>)),
      Exited(FALSE, <<>>, Lit("Error: No available formula") \o <<NL>>) }

\* what `brew install name` may answer
InstallProcs ==
    { Exited(TRUE, Lit("Installed") \o <<NL>>, <<>>),
      Exited(FALSE, <<>>, Lit("Error: Permission denied") \o <<NL>>),
      SpawnErr(ENOENT) }

searchVars == <<searches, pending_query, search_status>>
installVars == <<ipc, ijob, i_pkg_name>>

\* the activate handler run by a user who waits for the answer to the
\* earlier search before searching again
SearchWhenSettled ==
    /\ searches = <<>>
    /\ SearchActivate

(* ---- the user selects a row: row_selected (main.rs 671-720) ---- *)
BrSelectRow ==
    /\ Len(infos) < MaxInfos
    /\ \E pos \in 1..Len(br_list) :
          /\ pos # br_selected
          /\ br_selected' = pos
          /\ LET pkg_name == BrowseResolve(results_store, pos)
             IN  IF pkg_name.some
                 THEN /\ br_details_name' = Lit("Loading...")
                      /\ install_btn' = [install_btn EXCEPT !.visible = FALSE]
                      /\ install_status' = NoLabel
                      /\ infos' = Append(infos, [pc |-> "spawned", pkg_name |-> pkg_name.v,
                                                 job |-> NoJob])
                 ELSE UNCHANGED <<br_details_name, install_btn, install_status, infos>>
    /\ UNCHANGED <<results_store, br_list, searchVars, installVars, nonBrVars>>

InfoFirstPoll ==
    /\ \E k \in 1..Len(infos) :
          /\ infos[k].pc = "spawned"
          /\ infos' = [infos EXCEPT ![k].pc = "await", ![k].job = Queued]
    /\ UNCHANGED <<results_store, br_list, br_details_name, install_btn, br_selected,
                   install_status, searchVars, installVars, nonBrVars>>

InfoWorkerInvoke ==
    /\ \E k \in 1..Len(infos) :
          /\ infos[k].job.st = "queued"
          /\ infos' = [infos EXCEPT ![k].job.st = "running"]
    /\ UNCHANGED <<results_store, br_list, br_details_name, install_btn, br_selected,
                   install_status, searchVars, installVars, nonBrVars>>

InfoWorkerComplete ==
    /\ \E k \in 1..Len(infos) :
          /\ infos[k].job.st = "running"
          /\ \E p \in BrInfoProcs(infos[k].pkg_name) :
                infos' = [infos EXCEPT ![k].job = [st |-> "done", proc |-> p]]
    /\ UNCHANGED <<results_store, br_list, br_details_name, install_btn, br_selected,
                   install_status, searchVars, installVars, nonBrVars>>

InfoResume ==
    /\ \E k \in 1..Len(infos) :
          /\ infos[k].pc = "await"
          /\ infos[k].job.st = "done"
          /\ infos' = RemoveAt(infos, k)
          /\ LET result == get_package_info(infos[k].pkg_name, infos[k].job.proc)
             IN  IF result.ok
                 THEN /\ br_details_name' = result.val.name
                      /\ install_btn' = [install_btn EXCEPT !.visible = TRUE]
                 ELSE /\ br_details_name' = Lit("Error loading package")
                      /\ UNCHANGED install_btn
    /\ UNCHANGED <<results_store, br_list, br_selected, install_status, searchVars,
                   installVars, nonBrVars>>

(* ---- Install (main.rs 727-760) ---- *)
InstallClicked ==
    /\ Clickable(install_btn)
    /\ br_selected # 0
    /\ LET pkg_name == BrowseResolve(results_store, br_selected)
       IN  /\ pkg_name.some
           /\ i_pkg_name' = pkg_name.v
    /\ install_btn' = [install_btn EXCEPT !.sensitive = FALSE]
    /\ install_status' = Label("Installing...", NoName, 0, 0, <<>>, <<>>)
    /\ ipc' = "spawned"
    /\ UNCHANGED <<ijob, results_store, br_list, br_details_name, br_selected, infos,
                   searchVars, nonBrVars>>

InstallFirstPoll ==
    /\ ipc = "spawned"
    /\ ipc' = "await"
    /\ ijob' = Queued
    /\ UNCHANGED <<i_pkg_name, results_store, br_list, br_details_name, install_btn,
                   br_selected, install_status, infos, searchVars, nonBrVars>>

InstallWorkerInvoke ==
    /\ ijob.st = "queued"
    /\ ijob' = [ijob EXCEPT !.st = "running"]
    /\ UNCHANGED <<ipc, i_pkg_name, results_store, br_list, br_details_name, install_btn,
                   br_selected, install_status, infos, searchVars, nonBrVars>>

InstallWorkerComplete ==
    /\ ijob.st = "running"
    /\ \E p \in InstallProcs : ijob' = [st |-> "done", proc |-> p]
    /\ UNCHANGED <<ipc, i_pkg_name, results_store, br_list, br_details_name, install_btn,
                   br_selected, install_status, infos, searchVars, nonBrVars>>

\* faulty variant of InstallResume: a failed install is requested again
InstallResumeRetry ==
    /\ ipc = "await"
    /\ ijob.st = "done"
    /\ ijob' = NoJob
    /\ LET result == install_package(i_pkg_name, ijob.proc)
       IN  IF result.ok
           THEN /\ ipc' = "idle"
                /\ install_status' =
                      Label("Installed successfully!", NoName, 0, 0, <<>>, <<>>)
           ELSE /\ ipc' = "spawned"
                /\ install_status' = ErrorLabel(result.err)
    /\ UNCHANGED <<install_btn, i_pkg_name, results_store, br_list, br_details_name,
                   br_selected, infos, searchVars, nonBrVars>>

\* the continuation of the install future (main.rs 748-756): it shows the
\* outcome and ends
InstallResume ==
    /\ ipc = "await"
    /\ ijob.st = "done"
    /\ ipc' = "idle"
    /\ ijob' = NoJob
    /\ LET result == install_package(i_pkg_name, ijob.proc)
       IN  IF result.ok
           THEN /\ install_status' =
                      Label("Installed successfully!", NoName, 0, 0, <<>>, <<>>)
                /\ UNCHANGED install_btn
           ELSE /\ install_status' = ErrorLabel(result.err)
                /\ install_btn' = [install_btn EXCEPT !.sensitive = TRUE]
    /\ UNCHANGED <<i_pkg_name, results_store, br_list, br_details_name, br_selected, infos,
                   searchVars, nonBrVars>>

(***************************************************************************)
(* Statistics (get_brew_stats) and startup (main, show_update_dialog,      *)
(* build_main_window)                                                      *)
(*                                                                         *)
(* main_pc follows the main thread: "start" -> "probed" (is_brew_installed *)
(* returned) -> "dialog" (activate built the update dialog) ->             *)
(* "main_window" (Continue closed the dialog and built the main window).   *)
(* probe_proc is the outcome of the `brew --version` process, brew_installed*)
(* the value is_brew_installed returned for it, warned whether main printed *)
(* "Homebrew is not installed!".                                           *)
(* invocations is the history of the `brew` processes started, each with   *)
(* the thread that started it and waits for it.                            *)
(***************************************************************************)
DigitChars == <<"0", "1", "2", "3", "4", "5", "6", "7", "8", "9">>

\* usize::to_string
RECURSIVE ToDecimal(_)
ToDecimal(n) ==
    IF n < 10 THEN <<DigitChars[n + 1]>>
    ELSE ToDecimal(n \div 10) \o <<DigitChars[(n % 10) + 1]>>

\* .map(|o| lines().filter(|l| !l.is_empty()).count()).unwrap_or(0): the exit
\* status is not read
StatCount(p) ==
    IF p.kind = "spawn_err" THEN 0
    ELSE Len(SelectSeq(Lines(p.stdout), LAMBDA l : l # <<>>))

\* struct BrewStats
BrewStats(installed, casks, outdated, formulae, leaves, taps) ==
    [installed |-> installed, casks |-> casks, outdated |-> outdated,
     formulae |-> formulae, leaves |-> leaves, taps |-> taps]

\* the six queries, in the order get_brew_stats runs them
StatQueries ==
    <<Lit("list --formula -1"), Lit("list --cask -1"), Lit("outdated --formula"),
      Lit("formulae"), Lit("leaves"), Lit("tap")>>

\* ps: the outcomes of the six queries, in that order
get_brew_stats(ps) ==
    Ok(BrewStats(StatCount(ps[1]), StatCount(ps[2]), StatCount(ps[3]),
                 StatCount(ps[4]), StatCount(ps[5]), StatCount(ps[6])))

\* what one counting query may answer
StatsProcs ==
    { Exited(TRUE, <<"a", NL, NL, "b", NL>>, <<>>),
      Exited(FALSE, <<"a", NL>>, Lit("Error: stats") \o <<NL>>),
      Exited(FALSE, <<>>, Lit("Error: stats") \o <<NL>>),
      SpawnErr(ENOENT) }

\* what `brew --version` may answer; both streams go to Stdio::null()
ProbeProcs == {Exited(TRUE, <<>>, <<>>), Exited(FALSE, <<>>, <<>>), SpawnErr(ENOENT)}

\* what `brew update` may answer
UpdateProcs ==
    { Exited(TRUE, <<>>, <<>>),
      Exited(TRUE, Lit("Updated 1 tap") \o <<NL>>, Lit("==> Fetching") \o <<NL>>),
      Exited(FALSE, <<>>, Lit("Error: update") \o <<NL>>),
      SpawnErr(ENOENT) }

\* .status().map(|status| status.success()).unwrap_or(false)
is_brew_installed(p) == p.kind = "exited" /\ p.ok

Invocation(cmd, thread) == [cmd |-> cmd, thread |-> thread]

\* the value labels create_stat_row builds
InitialStatLabels ==
    BrewStats(Lit("..."), Lit("..."), Lit("..."), Lit("..."), Lit("..."), Lit("..."))

NoStatsJob == [st |-> "none", procs |-> <<>>]

StartInit ==
    /\ main_pc = "start"
    /\ brew_installed = FALSE
    /\ probe_proc = NoProc
    /\ warned = FALSE
    /\ invocations = {}
    /\ dialog_open = FALSE
    /\ dlg_status = NoLabel
    /\ dlg_text = <<>>
    /\ continue_btn = Button(FALSE, TRUE)
    /\ dpc = "none"
    /\ djob = NoJob
    /\ stats_pc = "none"
    /\ stats_job = NoStatsJob
    /\ stat_labels = InitialStatLabels

probeVars == <<brew_installed, probe_proc, warned>>
dialogVars == <<dialog_open, dlg_status, dlg_text, continue_btn, dpc, djob>>
statsVars == <<stats_pc, stats_job, stat_labels>>

(* ---- main (main.rs 15-39) ---- *)
\* brew::is_brew_installed(), called and waited for by main itself
ProbeBrew ==
    /\ main_pc = "start"
    /\ \E p \in ProbeProcs :
          /\ probe_proc' = p
          /\ brew_installed' = is_brew_installed(p)
          /\ warned' = ~is_brew_installed(p)
    /\ invocations' = invocations \cup {Invocation(Lit("--version"), "main")}
    /\ main_pc' = "probed"
    /\ UNCHANGED <<dialogVars, statsVars, nonStartVars>>

\* faulty variant of Activate: the window is built only when the probe
\* succeeded
ActivateIfInstalled ==
    /\ main_pc = "probed"
    /\ brew_installed
    /\ main_pc' = "dialog"
    /\ dialog_open' = TRUE
    /\ dlg_status' = Label("Updating Homebrew...", NoName, 0, 0, <<>>, <<>>)
    /\ dlg_text' = <<>>
    /\ continue_btn' = Button(FALSE, TRUE)
    /\ dpc' = "spawned"
    /\ UNCHANGED <<djob, probeVars, invocations, statsVars, nonStartVars>>

\* app.run(): activate -> build_ui -> show_update_dialog
Activate ==
    /\ main_pc = "probed"
    /\ main_pc' = "dialog"
    /\ dialog_open' = TRUE
    /\ dlg_status' = Label("Updating Homebrew...", NoName, 0, 0, <<>>, <<>>)
    /\ dlg_text' = <<>>
    /\ continue_btn' = Button(FALSE, TRUE)
    /\ dpc' = "spawned"
    /\ UNCHANGED <<djob, probeVars, invocations, statsVars, nonStartVars>>

(* ---- the update future of the dialog (main.rs 151-190) ---- *)
UpdateFirstPoll ==
    /\ dpc = "spawned"
    /\ dpc' = "await"
    /\ djob' = Queued
    /\ UNCHANGED <<main_pc, probeVars, invocations, dialog_open, dlg_status, dlg_text,
                   continue_btn, statsVars, nonStartVars>>

UpdateWorkerInvoke ==
    /\ djob.st = "queued"
    /\ djob' = [djob EXCEPT !.st = "running"]
    /\ invocations' = invocations \cup {Invocation(Lit("update"), "worker")}
    /\ UNCHANGED <<main_pc, probeVars, dialog_open, dlg_status, dlg_text,
                   continue_btn, dpc, statsVars, nonStartVars>>

UpdateWorkerComplete ==
    /\ djob.st = "running"
    /\ \E p \in UpdateProcs : djob' = [st |-> "done", proc |-> p]
    /\ UNCHANGED <<main_pc, probeVars, invocations, dialog_open, dlg_status, dlg_text,
                   continue_btn, dpc, statsVars, nonStartVars>>

\* the text the dialog shows for Ok((stdout, stderr))
UpdateOutput(stdout, stderr) ==
    LET first == IF stderr # <<>> THEN stderr ELSE <<>>
        output == IF stdout # <<>>
                  THEN (IF first # <<>> THEN first \o <<NL>> ELSE first) \o stdout
                  ELSE first
    IN  IF Trim(output) = <<>> THEN Lit("Already up-to-date.") ELSE output

\* faulty variant of UpdateResume: Continue is offered only after a successful
\* update
UpdateResumeBlocksOnFailure ==
    /\ dpc = "await"
    /\ djob.st = "done"
    /\ dpc' = "done"
    /\ LET result == update_brew(djob.proc)
       IN  IF result.ok
           THEN /\ dlg_status' =
                      Label("Homebrew updated successfully", NoName, 0, 0, <<>>, <<>>)
                /\ dlg_text' = UpdateOutput(result.val[1], result.val[2])
           ELSE /\ dlg_status' =
                      Label("Update failed (continuing anyway)", NoName, 0, 0, <<>>, <<>>)
                /\ dlg_text' = Lit("Error: ") \o DisplayBrewError(result.err)
    /\ continue_btn' = [continue_btn EXCEPT !.visible = update_brew(djob.proc).ok]
    /\ UNCHANGED <<djob, main_pc, probeVars, invocations, dialog_open, statsVars,
                   nonStartVars>>

UpdateResume ==
    /\ dpc = "await"
    /\ djob.st = "done"
    /\ dpc' = "done"
    /\ LET result == update_brew(djob.proc)
       IN  IF result.ok
           THEN /\ dlg_status' =
                      Label("Homebrew updated successfully", NoName, 0, 0, <<>>, <<>>)
                /\ dlg_text' = UpdateOutput(result.val[1], result.val[2])
           ELSE /\ dlg_status' =
                      Label("Update failed (continuing anyway)", NoName, 0, 0, <<>>, <<>>)
                /\ dlg_text' = Lit("Error: ") \o DisplayBrewError(result.err)
    /\ continue_btn' = [continue_btn EXCEPT !.visible = TRUE]
    /\ UNCHANGED <<djob, main_pc, probeVars, invocations, dialog_open, statsVars,
                   nonStartVars>>

\* Continue: dialog.close(); on_complete() = build_main_window, which builds
\* the three views and spawns the stats future
ContinueClicked ==
    /\ dialog_open
    /\ Clickable(continue_btn)
    /\ dialog_open' = FALSE
    /\ main_pc' = "main_window"
    /\ stat_labels' = InitialStatLabels
    /\ stats_pc' = "spawned"
    /\ UNCHANGED <<stats_job, probeVars, invocations, dlg_status, dlg_text,
                   continue_btn, dpc, djob, nonStartVars>>

(* ---- the stats future (main.rs 264-280) and get_brew_stats ---- *)
StatsFirstPoll ==
    /\ stats_pc = "spawned"
    /\ stats_pc' = "await"
    /\ stats_job' = [st |-> "queued", procs |-> <<>>]
    /\ UNCHANGED <<stat_labels, main_pc, probeVars, invocations, dialogVars,
                   nonStartVars>>

StatsWorkerStart ==
    /\ stats_job.st = "queued"
    /\ stats_job' = [stats_job EXCEPT !.st = "running"]
    /\ UNCHANGED <<stats_pc, stat_labels, main_pc, probeVars, invocations, dialogVars,
                   nonStartVars>>

\* the worker runs the next of the six queries and waits for its output
StatsWorkerQuery ==
    /\ stats_job.st = "running"
    /\ Len(stats_job.procs) < Len(StatQueries)
    /\ \E p \in StatsProcs : stats_job' = [stats_job EXCEPT !.procs = Append(@, p)]
    /\ invocations' = invocations \cup
           {Invocation(StatQueries[Len(stats_job.procs) + 1], "worker")}
    /\ UNCHANGED <<stats_pc, stat_labels, main_pc, probeVars, dialogVars,
                   nonStartVars>>

StatsWorkerReturn ==
    /\ stats_job.st = "running"
    /\ Len(stats_job.procs) = Len(StatQueries)
    /\ stats_job' = [stats_job EXCEPT !.st = "done"]
    /\ UNCHANGED <<stats_pc, stat_labels, main_pc, probeVars, invocations, dialogVars,
                   nonStartVars>>

StatsResume ==
    /\ stats_pc = "await"
    /\ stats_job.st = "done"
    /\ stats_pc' = "done"
    /\ LET result == get_brew_stats(stats_job.procs)
       IN  IF result.ok
           THEN stat_labels' =
                    BrewStats(ToDecimal(result.val.installed), ToDecimal(result.val.casks),
                              ToDecimal(result.val.outdated), ToDecimal(result.val.formulae),
                              ToDecimal(result.val.leaves), ToDecimal(result.val.taps))
           ELSE UNCHANGED stat_labels
    /\ UNCHANGED <<stats_job, main_pc, probeVars, invocations, dialogVars,
                   nonStartVars>>

(***************************************************************************)
(* Specifications                                                          *)
(***************************************************************************)
CmdNext ==
    \/ CallInstall
    \/ CallUninstall
    \/ CallUpgrade
    \/ CallSearch
    \/ CallInfo
    \/ CallInstalled
    \/ CallOutdated
    \/ CallUpdate
    \/ CmdConsume

UpdNext ==
    \/ LoadFirstPoll
    \/ LoadWorkerInvoke
    \/ LoadWorkerComplete
    \/ LoadResume
    \/ ToggleCheckbox
    \/ UpgradeSelectedClicked
    \/ BatchFirstPoll
    \/ BatchWorkerInvoke
    \/ BatchWorkerComplete
    \/ BatchResume
    \/ UpgradeAllClicked
    \/ AllFirstPoll
    \/ AllWorkerInvoke
    \/ AllWorkerComplete
    \/ AllResume

InstNext ==
    \/ InstLoadFirstPoll
    \/ InstLoadWorkerInvoke
    \/ InstLoadWorkerComplete
    \/ InstLoadResume
    \/ InstSelectRow
    \/ UninstallClicked
    \/ UninstFirstPoll
    \/ UninstWorkerInvoke
    \/ UninstWorkerComplete
    \/ UninstResume

BrNext ==
    \/ SearchActivate
    \/ SearchFirstPoll
    \/ SearchWorkerInvoke
    \/ SearchWorkerComplete
    \/ SearchResume

InstallNext ==
    \/ SearchWhenSettled
    \/ SearchFirstPoll
    \/ SearchWorkerInvoke
    \/ SearchWorkerComplete
    \/ SearchResume
    \/ BrSelectRow
    \/ InfoFirstPoll
    \/ InfoWorkerInvoke
    \/ InfoWorkerComplete
    \/ InfoResume
    \/ InstallClicked
    \/ InstallFirstPoll
    \/ InstallWorkerInvoke
    \/ InstallWorkerComplete
    \/ InstallResume

StartNext ==
    \/ ProbeBrew
    \/ Activate
    \/ UpdateFirstPoll
    \/ UpdateWorkerInvoke
    \/ UpdateWorkerComplete
    \/ UpdateResume
    \/ ContinueClicked
    \/ StatsFirstPoll
    \/ StatsWorkerStart
    \/ StatsWorkerQuery
    \/ StatsWorkerReturn
    \/ StatsResume

Init == CmdInit /\ UpdInit /\ InstInit /\ BrInit /\ StartInit

\* the command functions alone
SpecCmd == Init /\ [][CmdNext]_vars

\* the updates view alone
SpecUpdates == Init /\ [][UpdNext]_vars

\* the installed view alone
SpecInstalled == Init /\ [][InstNext]_vars

\* the search of the browse view alone
SpecBrowse == Init /\ [][BrNext]_vars

\* the browse view: search, selection, package info and install, with one
\* search at a time
SpecInstall == Init /\ [][InstallNext]_vars

\* startup: the probe, the update dialog, the stats of the main window
SpecStartup == Init /\ [][StartNext]_vars

(***************************************************************************)
(* Properties of the batch upgrade (SpecUpdates)                           *)
(***************************************************************************)
Range(seq) == {seq[i] : i \in 1..Len(seq)}
Count(seq, x) == Cardinality({i \in 1..Len(seq) : seq[i] = x})
Indices(seq) == [i \in 1..Len(seq) |-> i]

\* the process of job j was spawned and exited with success
ProcSucceeded(p) == p.kind = "exited" /\ p.ok

\* C1: when the batch has completed, every submitted identity is in exactly
\* one of succeeded and failed, once, and the two lengths add up to the
\* number of submitted identities.
BatchPartition ==
    bpc = "done" =>
        /\ \A k \in 1..Len(selected) :
              Count(succeeded, selected[k]) + Count(FailedNames(failed), selected[k]) = 1
        /\ Len(succeeded) + Len(failed) = Len(selected)

BatchPartitionWitness ==
    /\ bpc = "done"
    /\ Len(selected) = 2
    /\ Len(succeeded) = 1
    /\ Len(failed) = 1

\* C2: the invocations of one batch run one at a time and in submission
\* order: at most one is running, and item k+1 is started only after item k
\* has completed.
BatchSequential ==
    /\ Cardinality({k \in 1..Len(bjobs) : bjobs[k].st = "running"}) <= 1
    /\ \A k \in 1..(Len(bjobs) - 1) :
          bjobs[k + 1].st \in {"running", "done"} => bjobs[k].st = "done"
    /\ \A p \in 1..Len(events) :
          (events[p].ev = "invoke" /\ events[p].pos > 1) =>
              \E q \in 1..(p - 1) :
                  events[q].ev = "done" /\ events[q].pos = events[p].pos - 1

BatchSequentialWitness ==
    /\ Len(bjobs) = 2
    /\ bjobs[1].st = "done"
    /\ bjobs[2].st = "running"

\* C3: the batch never aborts early: when it has completed, every submitted
\* identity has had exactly one invocation and has one recorded outcome,
\* whatever the earlier items did.
BatchNeverAborts ==
    bpc = "done" =>
        \A k \in 1..Len(selected) :
            /\ Cardinality({p \in 1..Len(events) :
                              events[p].ev = "invoke" /\ events[p].pkg = selected[k]}) = 1
            /\ bjobs[k].st = "done"
            /\ \/ Contains(succeeded, selected[k])
               \/ Contains(FailedNames(failed), selected[k])

BatchNeverAbortsWitness ==
    /\ bpc = "done"
    /\ Len(selected) = 2
    /\ ~ProcSucceeded(bjobs[1].proc)
    /\ ProcSucceeded(bjobs[2].proc)
    /\ succeeded = <<selected[2]>>

\* C4: the report classifies the items by their own invocations: succeeded
\* holds exactly the identities whose process exited with success, and failed
\* is, in submission order, each other identity with the error text of its
\* own invocation (the io error of a failed spawn, else the captured stderr,
\* as BrewError displays it).
BatchClassifies ==
    bpc = "done" =>
        /\ Range(succeeded) =
              {selected[k] : k \in {j \in 1..Len(selected) : ProcSucceeded(bjobs[j].proc)}}
        /\ failed =
              MapSeq(SelectSeq(Indices(selected), LAMBDA k : ~ProcSucceeded(bjobs[k].proc)),
                     LAMBDA k : <<selected[k],
                                  Lit("Brew command failed: ")
                                      \o (IF bjobs[k].proc.kind = "spawn_err"
                                          THEN bjobs[k].proc.msg
                                          ELSE bjobs[k].proc.stderr)>>)

BatchClassifiesWitness ==
    /\ bpc = "done"
    /\ Len(failed) = 2
    /\ failed[1][1] = selected[1]
    /\ failed[2][1] = selected[2]
    /\ failed[1][2] # failed[2][2]

\* C5 as stated: between the completion of item k and the start of item k+1
\* a progress notification names item k, the one that just completed.
ProgressNamesCompletedItem ==
    \A p \in 1..Len(events) :
        (events[p].ev = "invoke" /\ events[p].pos > 1) =>
            LET k == events[p].pos - 1
            IN  \E q \in 1..(p - 1) :
                    /\ events[q] = Event("notify", selected[k], k, Len(selected))
                    /\ \E d \in 1..(q - 1) : events[d].ev = "done" /\ events[d].pos = k

\* C5 amended: before the invocation of each item k starts, and for k > 1
\* after the invocation of item k-1 has completed, a progress notification
\* carries (identity, position, total) of item k, the one about to start.
ProgressNamesStartingItem ==
    \A p \in 1..Len(events) :
        events[p].ev = "invoke" =>
            LET k == events[p].pos
            IN  \E q \in 1..(p - 1) :
                    /\ events[q] = Event("notify", selected[k], k, Len(selected))
                    /\ k > 1 =>
                          \E d \in 1..(q - 1) : events[d].ev = "done" /\ events[d].pos = k - 1

ProgressWitness ==
    \E p \in 1..Len(events) : events[p].ev = "invoke" /\ events[p].pos = 2

\* C6: the step that completes a batch re-offers the offered identities
\* minus the succeeded ones, in their order: the failed and the unselected
\* ones stay, no succeeded one stays, and the rows show the same list.
ReofferedAfterBatch ==
    [][(bpc = "await" /\ bpc' = "done") =>
          LET old == Names(checkboxes)
              new == Names(checkboxes')
          IN  /\ new = SelectSeq(old, LAMBDA x : x \notin Range(succeeded'))
              /\ Range(FailedNames(failed')) \subseteq Range(new)
              /\ (Range(old) \ Range(selected)) \subseteq Range(new)
              /\ Range(succeeded') \cap Range(new) = {}
              /\ upd_list' = new
              /\ \A i \in 1..Len(checkboxes') : ~checkboxes'[i].active]_vars

ReofferedAfterBatchWitness ==
    /\ bpc = "done"
    /\ Len(succeeded) = 1
    /\ Len(failed) = 1
    /\ Names(checkboxes) = FailedNames(failed)
    /\ upd_list = Names(checkboxes)

\* C7: with no CheckButton active and no batch in flight, no step starts a
\* batch or an upgrade of a single item, and the click that finds nothing
\* selected leaves every job and the last report as they were.
NoneActive == \A i \in 1..Len(checkboxes) : ~checkboxes[i].active

EmptyBatchDoesNothing ==
    [][/\ (NoneActive /\ bpc \in {"idle", "done"}) => UNCHANGED batchVars
       /\ (upgrade_status'.kind = "No packages selected" /\ upgrade_status' # upgrade_status)
             => (NoneActive /\ UNCHANGED <<batchVars, ajob, load_job>>)]_vars

EmptyBatchWitness ==
    /\ upgrade_status.kind = "No packages selected"
    /\ Clickable(upgrade_selected_btn)
    /\ bpc = "idle"
    /\ bjobs = <<>>
    /\ events = <<>>

(***************************************************************************)
(* Properties of the command functions (SpecCmd)                           *)
(***************************************************************************)
SingleOps == {"install", "uninstall", "upgrade", "search", "info", "outdated"}

\* C10 as stated: a single command succeeds exactly when its process was
\* spawned and exited with success; the detail of a failure of a process
\* that ran is the captured stderr, or the captured stdout when stderr is
\* empty.
FailureDetailFallsBackToStdout ==
    (cmd_pc = "returned" /\ cmd_call.fn \in SingleOps) =>
        LET p == cmd_call.proc
        IN  /\ cmd_result.ok <=> ProcSucceeded(p)
            /\ (~cmd_result.ok /\ p.kind = "exited") =>
                  cmd_result.err.msg = (IF p.stderr # <<>> THEN p.stderr ELSE p.stdout)

(***************************************************************************)
(* Properties of the positional stores (SpecInstalled, SpecBrowse)         *)
(***************************************************************************)
\* C8: after a successful uninstall has removed a row, every position of a
\* displayed row resolves to the package that row shows, and every position
\* past the last row resolves to nothing.
ResolveFollowsRemoval ==
    uninstall_status.kind = "Uninstalled successfully!" =>
        \A pos \in 1..(Len(packages_store) + 1) :
            IF pos <= Len(inst_list)
            THEN /\ InstalledResolve(packages_store, pos).some
                 /\ InstalledResolve(packages_store, pos).v.name = inst_list[pos]
            ELSE ~InstalledResolve(packages_store, pos).some

\* C9: every displayed result row resolves, by its position, to the name it
\* shows.
BrowseRowsMatchStore ==
    \A pos \in 1..Len(br_list) :
        /\ BrowseResolve(results_store, pos).some
        /\ BrowseResolve(results_store, pos).v = br_list[pos]

(***************************************************************************)
(* Properties of the statistics and of startup (SpecStartup)               *)
(***************************************************************************)
StatFields == <<"installed", "casks", "outdated", "formulae", "leaves", "taps">>

\* C11 as stated: once the snapshot is shown, the field of every query that
\* failed (spawn error or non-success exit) reads zero, and the field of every
\* other query reads the number of non-empty lines of its own output.
FailedQueryCountsZero ==
    stats_pc = "done" =>
        \A k \in 1..Len(StatFields) :
            LET p == stats_job.procs[k]
            IN  stat_labels[StatFields[k]] =
                    IF ProcSucceeded(p)
                    THEN ToDecimal(Len(SelectSeq(Lines(p.stdout), LAMBDA l : l # <<>>)))
                    ELSE ToDecimal(0)

\* C12 as stated: the snapshot is never an error, and it is all zero when
\* every one of its six queries failed.
SnapshotAllZeroWhenAllFail ==
    stats_job.st = "done" =>
        LET result == get_brew_stats(stats_job.procs)
        IN  /\ result.ok
            /\ (\A k \in 1..Len(StatFields) : ~ProcSucceeded(stats_job.procs[k]))
                  => result.val = BrewStats(0, 0, 0, 0, 0, 0)

\* C20 as stated: every `brew` process, the availability probe included, is
\* started and waited for by a worker thread.
NoInvocationOnCallerThread ==
    \A i \in invocations : i.thread = "worker"

\* the probe process could not be spawned or exited with non-success
ProbeFailed(p) == p.kind = "spawn_err" \/ (p.kind = "exited" /\ ~p.ok)

\* C22: the probe returns false exactly when its process cannot be spawned or
\* exits with non-success; a false result prints the warning and gates
\* nothing: whatever the probe returned, the activation, the update
\* invocation, Continue and the statistics queries go ahead when their turn
\* comes.
ProbeFalseOnlyWarns ==
    main_pc # "start"
    => /\ brew_installed <=> ~ProbeFailed(probe_proc)
       /\ warned <=> ~brew_installed
       /\ main_pc = "probed" => ENABLED Activate
       /\ dpc = "spawned" => ENABLED UpdateFirstPoll
       /\ djob.st = "queued" => ENABLED UpdateWorkerInvoke
       /\ (dialog_open /\ Clickable(continue_btn)) => ENABLED ContinueClicked
       /\ stats_pc = "spawned" => ENABLED StatsFirstPoll
       /\ (stats_job.st = "running" /\ Len(stats_job.procs) < Len(StatQueries))
             => ENABLED StatsWorkerQuery

\* the probe failed, and the update and every statistics query were invoked
\* all the same
ProbeFalseWitness ==
    /\ ProbeFailed(probe_proc)
    /\ warned
    /\ Invocation(Lit("update"), "worker") \in invocations
    /\ stats_pc = "done"
    /\ \A i \in 1..Len(StatQueries) : Invocation(StatQueries[i], "worker") \in invocations

\* a statistics query of the main window has been started or invoked
StatsStarted ==
    \/ stats_pc # "none"
    \/ \E i \in 1..Len(StatQueries) : Invocation(StatQueries[i], "worker") \in invocations

\* C26: a failed self-update does not block startup: once the update future
\* has ended, with either outcome, Continue is visible and can be clicked,
\* and it is visible no earlier; the main window and its queries exist only
\* after Continue closed the dialog, hence only after the update invocation
\* has completed.
UpdateFailureDoesNotBlock ==
    /\ dpc = "done" => continue_btn.visible
    /\ continue_btn.visible => (dpc = "done" /\ djob.st = "done")
    /\ (dpc = "done" /\ dialog_open) => ENABLED ContinueClicked
    /\ main_pc = "main_window" => (dpc = "done" /\ ~dialog_open)
    /\ StatsStarted => main_pc = "main_window"

\* the update failed and the main window was built and got its statistics
UpdateFailedWitness ==
    /\ ~update_brew(djob.proc).ok
    /\ dlg_status.kind = "Update failed (continuing anyway)"
    /\ main_pc = "main_window"
    /\ stats_pc = "done"

(***************************************************************************)
(* Properties of the decoding of `brew info --json=v2` (SpecCmd)           *)
(***************************************************************************)
\* the object o has the key k with a value that is not null
JHas(o, k) == k \in DOMAIN o /\ o[k].t # "null"
\* the object o has the key k with a value of the JSON type t
JIs(o, k, t) == k \in DOMAIN o /\ o[k].t = t
\* k is omitted (or null) in o, or has the JSON type t
JOmittedOr(o, k, t) == ~JHas(o, k) \/ JIs(o, k, t)
\* the text of the key k of o when it is a string, absent otherwise
OptionalText(o, k) == IF JIs(o, k, "str") THEN Some(o[k].s) ELSE None

\* the expected container: an object whose formulae is an array
TopLevelShape(doc) == doc.t = "obj" /\ JIs(doc.o, "formulae", "arr")
Entries(doc) == doc.o.formulae.a

\* the call that returned decoded the output of a process that exited with
\* success
DecodedBy(fns) ==
    /\ cmd_pc = "returned"
    /\ cmd_call.fn \in fns
    /\ ProcSucceeded(cmd_call.proc)

\* an entry that names its formula and whose other fields are each omitted or
\* well typed
OmitsOnlyOptional(e) ==
    /\ e.t = "obj"
    /\ JIs(e.o, "name", "str")
    /\ JOmittedOr(e.o, "desc", "str")
    /\ JOmittedOr(e.o, "homepage", "str")
    /\ JOmittedOr(e.o, "versions", "obj")
    /\ JHas(e.o, "versions") =>
          /\ JOmittedOr(e.o.versions.o, "stable", "str")
          /\ JOmittedOr(e.o.versions.o, "head", "str")
          /\ JOmittedOr(e.o.versions.o, "bottle", "bool")

\* the stable version of an entry, absent when versions or stable is omitted
EntryVersion(e) ==
    IF JHas(e.o, "versions") THEN OptionalText(e.o.versions.o, "stable") ELSE None

\* C13 as stated: a bulk listing of the expected top-level shape whose entries
\* omit optional fields (version, description, homepage) parses, and each
\* summary has exactly the omitted fields absent.
OmittedOptionalFieldsAreAbsent ==
    (/\ DecodedBy({"installed"})
     /\ TopLevelShape(cmd_call.proc.json)
     /\ \A i \in 1..Len(Entries(cmd_call.proc.json)) :
            OmitsOnlyOptional(Entries(cmd_call.proc.json)[i]))
    => /\ cmd_result.ok
       /\ Len(cmd_result.val) = Len(Entries(cmd_call.proc.json))
       /\ \A i \in 1..Len(Entries(cmd_call.proc.json)) :
             LET e == Entries(cmd_call.proc.json)[i]
                 pkg == cmd_result.val[i]
             IN  /\ pkg.name = e.o.name.s
                 /\ pkg.version = EntryVersion(e)
                 /\ pkg.desc = OptionalText(e.o, "desc")
                 /\ pkg.homepage = OptionalText(e.o, "homepage")

\* an entry whose required fields (name, versions.stable) are present and
\* well typed; its optional fields may have any shape
RequiredFieldsOk(e) ==
    /\ e.t = "obj"
    /\ JIs(e.o, "name", "str")
    /\ JIs(e.o, "versions", "obj")
    /\ JIs(e.o.versions.o, "stable", "str")

\* C14 as stated: with the expected top-level shape, an optional sub-field of
\* an unexpected shape is decoded as absent and the parse succeeds, of the
\* listing and of the detail record alike.
WrongShapeOptionalIsAbsent ==
    (/\ DecodedBy({"installed", "info"})
     /\ TopLevelShape(cmd_call.proc.json)
     /\ Entries(cmd_call.proc.json) # <<>>
     /\ \A i \in 1..Len(Entries(cmd_call.proc.json)) :
            RequiredFieldsOk(Entries(cmd_call.proc.json)[i]))
    => /\ cmd_result.ok
       /\ IF cmd_call.fn = "installed"
          THEN \A i \in 1..Len(Entries(cmd_call.proc.json)) :
                  cmd_result.val[i].desc = OptionalText(Entries(cmd_call.proc.json)[i].o, "desc")
          ELSE cmd_result.val.desc = OptionalText(Entries(cmd_call.proc.json)[1].o, "desc")

MinimalEntry(e) ==
    /\ e.t = "obj"
    /\ DOMAIN e.o = {"name", "versions"}
    /\ e.o.name.t = "str"
    /\ e.o.versions.t = "obj"
    /\ DOMAIN e.o.versions.o = {"stable"}
    /\ e.o.versions.o.stable.t = "str"

\* get_package_info returned for a payload whose formulae are minimal entries
MinimalPayloadDecoded ==
    /\ DecodedBy({"info"})
    /\ TopLevelShape(cmd_call.proc.json)
    /\ Entries(cmd_call.proc.json) # <<>>
    /\ \A i \in 1..Len(Entries(cmd_call.proc.json)) :
           MinimalEntry(Entries(cmd_call.proc.json)[i])

\* C21: the detail record of a minimal payload, one with only the name and
\* the stable version, is constructed: name and stable version are those of
\* the payload and every optional field is absent.
MinimalPayloadGivesDetail ==
    MinimalPayloadDecoded
    => LET e == Entries(cmd_call.proc.json)[1]
       IN  /\ cmd_result.ok
           /\ cmd_result.val.name = e.o.name.s
           /\ cmd_result.val.versions.stable = e.o.versions.o.stable.s
           /\ cmd_result.val.desc = None
           /\ cmd_result.val.homepage = None
           /\ cmd_result.val.versions.head = None
           /\ cmd_result.val.versions.bottle = None

MinimalPayloadWitness ==
    /\ MinimalPayloadDecoded
    /\ cmd_result.ok
    /\ cmd_result.val.name = Lit("b")

(***************************************************************************)
(* Properties of the line-oriented outputs (SpecCmd)                       *)
(***************************************************************************)
\* the prefix "==>" of a section header line
SectionHeaderMarker == <<"=", "=", ">">>

\* C16 as stated: for the search and for the outdated listing alike, the
\* names returned are, in order, the trimmed lines of the output that are not
\* empty and do not start with the section-header marker; no name is empty
\* and none is a section header.
LineListDropsEmptyAndHeaders ==
    DecodedBy({"search", "outdated"}) =>
        /\ cmd_result.ok
        /\ cmd_result.val =
              SelectSeq(MapSeq(Lines(cmd_call.proc.stdout), Trim),
                        LAMBDA l : l # <<>> /\ ~StartsWith(l, SectionHeaderMarker))
        /\ \A i \in 1..Len(cmd_result.val) :
              /\ cmd_result.val[i] # <<>>
              /\ ~StartsWith(cmd_result.val[i], SectionHeaderMarker)

\* the process ran and printed no name: the tool found no match, whether it
\* says so with a success or with a non-success exit
SignalsNoMatch(p) == p.kind = "exited" /\ p.stdout = <<>>

\* C17 as stated: a search that matches nothing returns the empty sequence
\* and no error, with a success exit and with a non-success exit alike.
NoMatchIsEmptyNotError ==
    (/\ cmd_pc = "returned"
     /\ cmd_call.fn = "search"
     /\ SignalsNoMatch(cmd_call.proc))
    => /\ cmd_result.ok
       /\ cmd_result.val = <<>>


(***************************************************************************)
(* Properties of the browse view (SpecBrowse, SpecInstall)                 *)
(***************************************************************************)
\* C18: a search submitted with an empty query issues the search invocation
\* without a term argument: from the activation of the entry with no text
\* until the answer is delivered, a search future whose `brew` arguments are
\* `search --formula` alone is in flight
EmptyQueryIssuesUnfilteredSearch ==
    pending_query = Some(<<>>)
        => \E k \in 1..Len(searches) :
              SearchArgs(searches[k].query) = <<Lit("search"), Lit("--formula")>>


\* One step of a single operation, seen through the position pc of its
\* future and its blocking job: the future exists only after a request
\* (requested), queues one job at its first poll, and ends when it has shown
\* the outcome of that job; nothing else starts a future or a job.
OperationStep(pc, job, pcNext, jobNext, requested) ==
    /\ pc # pcNext
          => <<pc, pcNext>> \in {<<"idle", "spawned">>, <<"spawned", "await">>,
                                 <<"await", "idle">>}
    /\ job.st # jobNext.st
          => <<job.st, jobNext.st>> \in {<<"none", "queued">>, <<"queued", "running">>,
                                         <<"running", "done">>, <<"done", "none">>}
    /\ (pc = "idle" /\ pcNext = "spawned") => (requested /\ job = NoJob /\ jobNext = NoJob)
    /\ (job.st = "none" /\ jobNext.st = "queued") => (pc = "spawned" /\ pcNext = "await")
    /\ (pc = "await" /\ pcNext = "idle") => (job.st = "done" /\ jobNext = NoJob)

UninstallLifecycle ==
    [][OperationStep(upc, ujob, upc', ujob',
                     Clickable(uninstall_btn) /\ ~uninstall_btn'.sensitive)]_vars

UpgradeAllLifecycle ==
    [][OperationStep(apc, ajob, apc', ajob',
                     Clickable(upgrade_all_btn) /\ ~upgrade_all_btn'.sensitive)]_vars


\* C23: the Install button is insensitive only while an install started
\* from it is in flight: once the install has ended, with success or with
\* failure, the button is sensitive again.
InstallButtonSensitiveWhenIdle ==
    ~install_btn.sensitive => ipc # "idle"

\* the same for the Uninstall button (SpecInstalled)
UninstallButtonSensitiveWhenIdle ==
    ~uninstall_btn.sensitive => upc # "idle"


(***************************************************************************)
(* Properties of the two upgrade buttons (SpecUpdates)                     *)
(***************************************************************************)
\* the `brew upgrade` processes running: those of the batch and that of
\* Upgrade All
RunningUpgrades ==
    Cardinality({k \in 1..Len(bjobs) : bjobs[k].st = "running"})
        + (IF ajob.st = "running" THEN 1 ELSE 0)

\* C24: at most one upgrade invocation is running at any time, and neither
\* upgrade can be started while the other is in flight.
OneUpgradeAtATime ==
    /\ RunningUpgrades <= 1
    /\ ~(bpc \in {"spawned", "await"} /\ apc \in {"spawned", "await"})


(***************************************************************************)
(* Properties of the uninstall (SpecInstalled)                             *)
(***************************************************************************)
\* the uninstall future shows its outcome and ends
UninstallEnds == upc = "await" /\ upc' = "idle"

\* the failure half of C25: from the request to the failure nothing of the
\* store or of the list changes, the error is shown and the button is
\* sensitive again
UninstallFailureFrame ==
    /\ (upc # "idle" /\ ~UninstallEnds) => UNCHANGED <<packages_store, inst_list>>
    /\ (UninstallEnds /\ ~uninstall_package(u_pkg_name, ujob.proc).ok)
          => /\ UNCHANGED <<packages_store, inst_list>>
             /\ uninstall_status' = ErrorLabel(uninstall_package(u_pkg_name, ujob.proc).err)
             /\ uninstall_btn'.sensitive

\* C25: a failed uninstall leaves the store and the list as they were before
\* the request, shows the error and re-enables the button; a row is removed
\* only by a successful uninstall, and then the package uninstalled is the
\* one of the row that was selected at the click, the row that is removed.
UninstallRemovesOnlyOnSuccess ==
    [][/\ UninstallFailureFrame
       /\ Len(inst_list') < Len(inst_list)
             => /\ UninstallEnds
                /\ uninstall_package(u_pkg_name, ujob.proc).ok
                /\ u_pkg_name = u_row
                /\ inst_list' = RemoveRow(inst_list, u_row)]_vars

\* an uninstall has failed: the rows and the store are whole, the error is
\* shown and the button can be clicked again
UninstallFailedWitness ==
    /\ upc = "idle"
    /\ u_pkg_name # NoName
    /\ uninstall_status.kind = "Error"
    /\ Clickable(uninstall_btn)
    /\ inst_list # <<>>
    /\ inst_list = MapSeq(packages_store, LAMBDA pkg : pkg.name)

====
